---- MODULE Spec2Model ----
(***************************************************************************)
(* Scroll-progress state machine of the portfolio overlay                  *)
(* (src/components/ScrollOverlay.tsx) together with its host page.         *)
(*                                                                         *)
(* Numbers.  Progress p is a JavaScript number; here it is a fixed-point   *)
(* integer with PScale units per 1.0, so MAX_P = 2.0 is 2 * PScale and the *)
(* thresholds 0.25, 0.30, ... are whole numbers of units.  Window heights  *)
(* are drawn from values for which 1 / (viewport * 4) is a whole number of *)
(* units per pixel, so applyDelta is exact.  Eased values are fixed-point  *)
(* with One units per 1.0.                                                 *)
(*                                                                         *)
(* React.  setP / setVw queue a state update (pendingP, pendingVw); the    *)
(* handlers registered by the effect of lines 41-152 keep reading the p of *)
(* the render that registered them (closureP) until the next render has    *)
(* run the effect's cleanup and body again.                                *)
(***************************************************************************)
EXTENDS Integers, Sequences, FiniteSets, TLC

\* ------------------------------------------------------------------------
\* Units and input ranges
\* ------------------------------------------------------------------------

\* fixed-point units of Progress per 1.0
PScale == 1600
\* fixed-point units of an eased value (ramp, easeInPow) per 1.0
One == 1000

\* largest wheel deltaY, in notches, that the model feeds in
MaxNotch == 3
\* number of touch positions above 0 that the model feeds in
MaxTouch == 2

\* pixels of one pixel-mode wheel notch and of one touch position step
PixelStep == 8

\* window.innerHeight values (0: a collapsed window, guarded by Math.max)
Heights == {0, 16}
\* window.innerWidth values
Widths == {800, 1200}
\* text widths getBoundingClientRect can report for the heading
TextWidths == {0, 400}

Notches == (0 - MaxNotch) .. MaxNotch
\* WheelEvent inputs: <<deltaMode, deltaY>>
WheelInputs ==
    {<<0, n * PixelStep>> : n \in Notches} \cup
    {<<1, n>> : n \in Notches} \cup
    {<<2, n>> : n \in {-1, 0, 1}}
\* clientY of the first touch point
TouchYs == {k * PixelStep : k \in 0 .. MaxTouch}

\* "no value": null of a ref, or no queued state update
Null == -1

\* ------------------------------------------------------------------------
\* Utility helpers (lines 10-21)
\* ------------------------------------------------------------------------
Min2(a, b) == IF a <= b THEN a ELSE b
Max2(a, b) == IF a >= b THEN a ELSE b

\* clamp(v, min, max) = Math.min(Math.max(v, min), max)
clamp(v, lo, hi) == Min2(Max2(v, lo), hi)

\* lerp with its end points exchanged
lerp_Swapped(a, b, t) == b + ((a - b) * t) \div One

\* lerp(a, b, t) = a + (b - a) * t, t in One units
lerp(a, b, t) == a + ((b - a) * t) \div One

\* ramp without the clamp of line 16
ramp_Unclamped(v, inStart, inEnd) ==
    IF inEnd = inStart
    THEN (IF v >= inEnd THEN One ELSE 0)
    ELSE ((v - inStart) * One) \div (inEnd - inStart)

\* ramp(v, inStart, inEnd): result in One units
ramp(v, inStart, inEnd) ==
    IF inEnd = inStart
    THEN (IF v >= inEnd THEN One ELSE 0)
    ELSE clamp(((v - inStart) * One) \div (inEnd - inStart), 0, One)

\* ceiling of a / b for a >= 0, b > 0
CeilDiv(a, b) == (a + b - 1) \div b

\* easeInPow(t, k) = Math.pow(clamp(t), k), exponent k10 / 10 in [1, 2].
\* Math.pow has no exact fixed-point form: the value is interpolated between
\* c and c^2 (the powers 1 and 2) and rounded up, which keeps what the code
\* relies on: 0 at 0, One at One, strictly between for 0 < c < One,
\* non-decreasing in c.
easeInPow(t, k10) ==
    LET c == clamp(t, 0, One)
        sq == CeilDiv(c * c, One)
    IN  CeilDiv((20 - k10) * c + (k10 - 10) * sq, 10)


\* ------------------------------------------------------------------------
\* Component constants (lines 24-28)
\* ------------------------------------------------------------------------
EXTRA_SLICES_SCROLL == PScale
MAX_P == PScale + EXTRA_SLICES_SCROLL
\* 0.92
SLICE_START == (92 * PScale) \div 100

\* ------------------------------------------------------------------------
\* State
\* ------------------------------------------------------------------------
VARIABLES
    phase,          \* "intro": Home has introDone = false, overlay not mounted;
                    \* "active": overlay mounted; "torn": overlay unmounted
    p,              \* useState p of the last committed render
    pendingP,       \* value of the last queued setP, Null when none is queued
    closureP,       \* the p the registered input handlers close over
    listeners,      \* wheel/touchstart/touchmove/touchend listeners registered
    isCapturing,    \* isCapturingRef.current
    bodyLocked,     \* body.dataset.scrollLock / overflow hidden / touch-action none
    touchY,         \* touchYRef.current
    fingerY,        \* clientY of the last touchstart / touchmove since the last
                    \* touchend, Null when there was none (history only)
    lastDy,         \* lastDyRef.current
    innerHeight,    \* window.innerHeight
    innerWidth,     \* window.innerWidth
    vw,             \* useState vw of the last committed render
    pendingVw,      \* value of the last queued setVw, Null when none is queued
    textW,          \* useState textW
    moveStartLeft,  \* moveStartLeftRef.current
    startLeftPx,    \* startLeftPx the last render used
    lastEv,         \* the last input event delivered and what became of it
    lockedAtTeardown, \* whether the body lock was on when the overlay was unmounted
    home,           \* Home's introDone, IntroType's done and the calls of onDone
    flow,           \* the FlowingDescription instance: props, environment, state
    probe           \* arguments and result of a utility function under evaluation

vars == <<phase, p, pendingP, closureP, listeners, isCapturing, bodyLocked,
          touchY, fingerY, lastDy, innerHeight, innerWidth, vw, pendingVw, textW,
          moveStartLeft, startLeftPx, lastEv, lockedAtTeardown, home, flow, probe>>

captureVars == <<isCapturing, bodyLocked, lastDy>>
geomVars == <<innerHeight, innerWidth, vw, pendingVw, textW, moveStartLeft, startLeftPx>>
mountVars == <<phase, p, closureP, listeners, lockedAtTeardown, home>>
\* what the overlay never touches
otherVars == <<flow, probe>>
overlayVars ==
    <<phase, p, pendingP, closureP, listeners, isCapturing, bodyLocked,
      touchY, fingerY, lastDy, innerHeight, innerWidth, vw, pendingVw, textW,
      moveStartLeft, startLeftPx, lastEv, lockedAtTeardown, home>>

\* capBefore: isCapturingRef.current when the event arrived
NoEvent ==
    [kind |-> "none", dy |-> 0, decided |-> FALSE, prevented |-> FALSE,
     capBefore |-> FALSE]
Event(k, d, dec, prev) ==
    [kind |-> k, dy |-> d, decided |-> dec, prevented |-> prev,
     capBefore |-> isCapturing]

\* ------------------------------------------------------------------------
\* The effect of lines 41-152: helpers
\* ------------------------------------------------------------------------

\* setBodyLocked(locked): the lock state of the body afterwards
setBodyLocked(locked) == locked

\* line 60 with >= and <= for the two boundary tests on deltaY
startsCapture_NonStrict(pp, deltaY) ==
    \/ (pp > 0 /\ pp < MAX_P)
    \/ (pp = 0 /\ deltaY >= 0)
    \/ (pp = MAX_P /\ deltaY <= 0)

\* startCapturingIfNeeded(deltaY), line 60: does a not-capturing overlay start?
startsCapture(pp, deltaY) ==
    \/ (pp > 0 /\ pp < MAX_P)
    \/ (pp = 0 /\ deltaY > 0)
    \/ (pp = MAX_P /\ deltaY < 0)

\* startCapturingIfNeeded(deltaY): isCapturingRef.current afterwards
startCapturingIfNeeded(cap, pp, deltaY) ==
    IF ~cap THEN (IF startsCapture(pp, deltaY) THEN TRUE ELSE cap) ELSE cap

\* endCapturingIfNeeded with p > MAX_P for the bottom bound of line 76
endCapturingIfNeeded_StrictTop(pp, dy) ==
    \/ (pp <= 0 /\ dy < 0)
    \/ (pp > MAX_P /\ dy > 0)

\* endCapturingIfNeeded(dy), lines 70 and 76: does it release?
endCapturingIfNeeded(pp, dy) ==
    \/ (pp <= 0 /\ dy < 0)
    \/ (pp >= MAX_P /\ dy > 0)

\* viewport = Math.max(window.innerHeight, 1)
viewportOf(h) == Max2(h, 1)

\* applyDelta without the Math.min(..., MAX_P) of line 90
applyDelta_NoUpperClamp(pp, dy, h) ==
    Max2(pp + (dy * PScale) \div (viewportOf(h) * 4), 0)

\* applyDelta(dy): next = clamp(p + dy * 1 / (viewport * 4), 0, MAX_P)
applyDelta(pp, dy, h) ==
    Min2(Max2(pp + (dy * PScale) \div (viewportOf(h) * 4), 0), MAX_P)

\* the normalisation with the line and page factors exchanged
pixelDeltaY_ModesSwapped(deltaMode, deltaY, h) ==
    IF deltaMode = 2 THEN deltaY * 16
    ELSE IF deltaMode = 1 THEN deltaY * viewportOf(h)
    ELSE deltaY

\* onWheel, lines 99-103: delta in pixels
pixelDeltaY(deltaMode, deltaY, h) ==
    IF deltaMode = 1 THEN deltaY * 16
    ELSE IF deltaMode = 2 THEN deltaY * viewportOf(h)
    ELSE deltaY

\* setP(next): React drops an update equal to the current state when nothing
\* is queued; otherwise the update replaces whatever was queued before
setP(next) == IF next = p /\ pendingP = Null THEN Null ELSE next

\* setVw(w)
setVw(w) == IF w = vw /\ pendingVw = Null THEN Null ELSE w

\* HandleDelta testing isCapturingRef for preventDefault before
\* startCapturingIfNeeded has run
HandleDelta_PreventBeforeStart(kind, dy, newTouchY) ==
    LET cap1 == startCapturingIfNeeded(isCapturing, closureP, dy)
        lock1 == IF cap1 /\ ~isCapturing THEN setBodyLocked(TRUE) ELSE bodyLocked
        next == applyDelta(closureP, dy, innerHeight)
        atBound == next <= 0 \/ next >= MAX_P
        release == atBound /\ endCapturingIfNeeded(closureP, dy)
    IN  IF cap1
        THEN /\ lastDy' = dy
             /\ pendingP' = setP(next)
             /\ touchY' = newTouchY
             /\ isCapturing' = (IF release THEN FALSE ELSE cap1)
             /\ bodyLocked' = (IF release THEN setBodyLocked(FALSE) ELSE lock1)
             /\ lastEv' = Event(kind, dy, TRUE, isCapturing)
        ELSE /\ UNCHANGED <<lastDy, pendingP, touchY, isCapturing, bodyLocked>>
             /\ lastEv' = Event(kind, dy, TRUE, FALSE)

\* the part common to onWheel (lines 104-110) and onTouchMove (lines 122-129),
\* for a delta dy in pixels; kind names the event and newTouchY is the value
\* touchYRef has if the event is captured
HandleDelta(kind, dy, newTouchY) ==
    LET cap1 == startCapturingIfNeeded(isCapturing, closureP, dy)
        lock1 == IF cap1 /\ ~isCapturing THEN setBodyLocked(TRUE) ELSE bodyLocked
        next == applyDelta(closureP, dy, innerHeight)
        atBound == next <= 0 \/ next >= MAX_P
        release == atBound /\ endCapturingIfNeeded(closureP, dy)
    IN  IF cap1
        THEN /\ lastDy' = dy
             /\ pendingP' = setP(next)
             /\ touchY' = newTouchY
             /\ isCapturing' = (IF release THEN FALSE ELSE cap1)
             /\ bodyLocked' = (IF release THEN setBodyLocked(FALSE) ELSE lock1)
             /\ lastEv' = Event(kind, dy, TRUE, TRUE)
        ELSE /\ UNCHANGED <<lastDy, pendingP, touchY, isCapturing, bodyLocked>>
             /\ lastEv' = Event(kind, dy, TRUE, FALSE)

\* ------------------------------------------------------------------------
\* Input handlers
\* ------------------------------------------------------------------------
\* onWheel applying the delta without the capturing decision of line 104
onWheel_AppliesWhileIdle(deltaMode, deltaY) ==
    /\ listeners
    /\ UNCHANGED otherVars
    /\ pendingP' = setP(applyDelta(closureP,
                          pixelDeltaY(deltaMode, deltaY, innerHeight), innerHeight))
    /\ lastEv' = Event("wheel", pixelDeltaY(deltaMode, deltaY, innerHeight), TRUE, TRUE)
    /\ UNCHANGED <<lastDy, touchY, isCapturing, bodyLocked>>
    /\ UNCHANGED <<mountVars, geomVars, fingerY>>

\* onWheel, lines 97-111
onWheel(deltaMode, deltaY) ==
    /\ listeners
    /\ UNCHANGED otherVars
    /\ HandleDelta("wheel", pixelDeltaY(deltaMode, deltaY, innerHeight), touchY)
    /\ UNCHANGED <<mountVars, geomVars, fingerY>>

onTouchStart(y) ==
    /\ listeners
    /\ UNCHANGED otherVars
    /\ touchY' = y
    /\ fingerY' = y
    /\ lastEv' = Event("touchstart", 0, FALSE, FALSE)
    /\ UNCHANGED <<mountVars, geomVars, captureVars, pendingP>>

onTouchMove(y) ==
    /\ listeners
    /\ UNCHANGED otherVars
    /\ IF touchY = Null
       THEN /\ lastEv' = Event("touchmove", 0, FALSE, FALSE)
            /\ UNCHANGED <<captureVars, pendingP, touchY, fingerY>>
       ELSE /\ HandleDelta("touchmove", touchY - y, y)
            /\ fingerY' = y
    /\ UNCHANGED <<mountVars, geomVars>>

\* the release test of onTouchEnd with the sign of the stored delta ignored
touchEndReleases_AnyDelta(pp, dy) == pp <= 0 \/ pp >= MAX_P

\* onTouchEnd, line 134: endCapturingIfNeeded(lastDyRef.current || 0)
touchEndReleases(pp, dy) == endCapturingIfNeeded(pp, IF dy # 0 THEN dy ELSE 0)

onTouchEnd ==
    /\ listeners
    /\ UNCHANGED otherVars
    /\ touchY' = Null
    /\ fingerY' = Null
    /\ LET release == touchEndReleases(closureP, lastDy)
       IN  /\ isCapturing' = (IF release THEN FALSE ELSE isCapturing)
           /\ bodyLocked' = (IF release THEN setBodyLocked(FALSE) ELSE bodyLocked)
    /\ lastEv' = Event("touchend", lastDy, FALSE, FALSE)
    /\ UNCHANGED <<mountVars, geomVars, lastDy, pendingP>>

\* ------------------------------------------------------------------------
\* Derived parameters of a render (lines 189-247)
\* ------------------------------------------------------------------------
\* p in One units, for easeInPow(baseP, k)
ToOne(pp) == (pp * One) \div PScale

baseP(pp) == Min2(pp, PScale)

\* rectHeightVh = easeInPow(baseP, 1.3) * 100, in One units per vh
rectHeightVh(pp) == easeInPow(ToOne(baseP(pp)), 13) * 100
\* rectOpacity = ramp(baseP, 0.0, 0.25)
rectOpacity(pp) == ramp(baseP(pp), 0, (25 * PScale) \div 100)
\* textOpacity = ramp(baseP, 0.3, 0.65)
textOpacity(pp) == ramp(baseP(pp), (30 * PScale) \div 100, (65 * PScale) \div 100)
\* moveT = easeInPow(ramp(baseP, 0.70, 0.97), 1.8)
moveT(pp) == easeInPow(ramp(baseP(pp), (70 * PScale) \div 100, (97 * PScale) \div 100), 18)
\* splitT = easeInPow(ramp(baseP, 0.68, 0.97), 2.0)
splitT(pp) == easeInPow(ramp(baseP(pp), (68 * PScale) \div 100, (97 * PScale) \div 100), 20)

TARGET_LEFT_VW == 1
TARGET_TOP_VH == 70
\* leftTargetPx = vw * (TARGET_LEFT_VW / 100)
leftTargetPx(w) == (w * TARGET_LEFT_VW) \div 100
\* centerLeftPx = Math.max(0, vw * 0.5 - measuredWidth * 0.5)
centerLeftPx(w, tw) == Max2(0, (w - tw) \div 2)
\* leftPx = Math.max(leftTargetPx, lerp(startLeftPx, leftTargetPx, moveT))
leftPx(start, w, pp) == Max2(leftTargetPx(w), lerp(start, leftTargetPx(w), moveT(pp)))
\* topVh = lerp(50, TARGET_TOP_VH, moveT)
topVh(pp) == lerp(50, TARGET_TOP_VH, moveT(pp))
\* mlEm = lerp(0.35, 0, splitT), in hundredths of an em
mlEm(pp) == lerp(35, 0, splitT(pp))
\* fontSizeVW = lerp(6.5, 12, splitT), in tenths of a vw
fontSizeVW(pp) == lerp(65, 120, splitT(pp))

\* the effect of lines 213-220: moveStartLeftRef.current afterwards
moveStartEffect_Recaptures(ref, mt, center) ==
    IF mt = 0 THEN Null ELSE center
moveStartEffect(ref, mt, center) ==
    LET r1 == IF mt > 0 /\ ref = Null THEN center ELSE ref
    IN  IF mt = 0 THEN Null ELSE r1

\* a cleanup that only removes the listeners
cleanupBody_KeepsLock(locked) == locked

\* cleanup of the effect, lines 148-150: the lock state of the body afterwards
cleanupBody(locked) == FALSE

\* ------------------------------------------------------------------------
\* Rendering
\* ------------------------------------------------------------------------
\* One commit of ScrollOverlay with state p1 / vw1.  relayout: p or vw changed
\* (or first render), so the layout effect of lines 163-168 measures the
\* heading (width w) and, if setTextW changes the state, React renders again
\* before anything else runs; the passive effects of the first render run in
\* between.
Commit(p1, vw1, relayout, w) ==
    LET mt == moveT(p1)
        c1 == centerLeftPx(vw1, textW)
        ref1 == moveStartEffect(moveStartLeft, mt, c1)
        w1 == IF relayout THEN w ELSE textW
        again == w1 # textW
        c2 == centerLeftPx(vw1, w1)
    IN  /\ p' = p1
        /\ vw' = vw1
        /\ textW' = w1
        /\ moveStartLeft' = (IF again THEN moveStartEffect(ref1, mt, c2) ELSE ref1)
        /\ startLeftPx' = (IF again
                           THEN (IF ref1 # Null THEN ref1 ELSE c2)
                           ELSE (IF moveStartLeft # Null THEN moveStartLeft ELSE c1))

\* IntroType's run() finds no step left: setDone(true), IntroType renders
\* with done = true and its notify effect calls onDone, which queues
\* setIntroDone(true).  (The catch of the start effect, which would call
\* onDone directly, is not reachable: nothing in its try block throws.)
IntroComplete ==
    /\ phase = "intro"
    /\ ~home.done
    /\ home' = [home EXCEPT !.done = TRUE, !.onDoneCalls = @ + 1, !.pending = TRUE]
    /\ UNCHANGED <<phase, p, pendingP, closureP, listeners, isCapturing, bodyLocked,
                   touchY, fingerY, lastDy, innerHeight, innerWidth, vw, pendingVw,
                   textW, moveStartLeft, startLeftPx, lastEv, lockedAtTeardown>>
    /\ UNCHANGED otherVars

\* Home renders with introDone = true: ScrollOverlay mounts with p = 0,
\* vw = window.innerWidth, textW = 0, and its effects run.  IntroType gets
\* the new onDone closure of this render, so its notify effect
\* ([done, onDone]) runs again and calls onDone; setIntroDone(true) then
\* leaves the state as it is.
IntroDone ==
    /\ phase = "intro"
    /\ home.pending
    /\ home' = [home EXCEPT !.introDone = TRUE, !.pending = FALSE,
                            !.onDoneCalls = IF home.done THEN @ + 1 ELSE @]
    /\ UNCHANGED otherVars
    /\ phase' = "active"
    /\ \E w \in TextWidths : Commit(0, innerWidth, TRUE, w)
    /\ closureP' = 0
    /\ listeners' = TRUE
    /\ pendingP' = Null
    /\ pendingVw' = Null
    /\ UNCHANGED <<captureVars, touchY, fingerY, innerHeight, innerWidth, lastEv, lockedAtTeardown>>

\* React re-renders ScrollOverlay with the queued state.  When p changed, the
\* effect of lines 41-152 is cleaned up (listeners removed, body restored) and
\* run again (listeners registered, closing over the new p).
Render ==
    /\ phase = "active"
    /\ UNCHANGED otherVars
    /\ pendingP # Null \/ pendingVw # Null
    /\ LET p1 == IF pendingP # Null THEN pendingP ELSE p
           vw1 == IF pendingVw # Null THEN pendingVw ELSE vw
       IN  /\ \E w \in TextWidths : Commit(p1, vw1, p1 # p \/ vw1 # vw, w)
           /\ closureP' = p1
           /\ bodyLocked' = (IF p1 # p THEN cleanupBody(bodyLocked) ELSE bodyLocked)
    /\ pendingP' = Null
    /\ pendingVw' = Null
    /\ UNCHANGED <<phase, listeners, isCapturing, lastDy, touchY, fingerY, innerHeight,
                   innerWidth, lastEv, lockedAtTeardown, home>>

\* The overlay is unmounted: every effect cleanup runs
Teardown ==
    /\ phase = "active"
    /\ UNCHANGED otherVars
    /\ phase' = "torn"
    /\ listeners' = FALSE
    /\ bodyLocked' = cleanupBody(bodyLocked)
    /\ lockedAtTeardown' = bodyLocked
    /\ pendingP' = Null
    /\ pendingVw' = Null
    /\ UNCHANGED <<p, closureP, isCapturing, lastDy, touchY, fingerY, innerHeight, innerWidth,
                   vw, textW, moveStartLeft, startLeftPx, lastEv, home>>

\* a resize handler that also restarts the animation
Resize_ResetsProgress(w, h) ==
    /\ phase # "torn"
    /\ UNCHANGED otherVars
    /\ <<w, h>> # <<innerWidth, innerHeight>>
    /\ innerWidth' = w
    /\ innerHeight' = h
    /\ pendingVw' = (IF phase = "active" THEN setVw(w) ELSE pendingVw)
    /\ pendingP' = (IF phase = "active" THEN setP(0) ELSE pendingP)
    /\ UNCHANGED <<mountVars, captureVars, touchY, fingerY, vw, textW,
                   moveStartLeft, startLeftPx, lastEv>>

\* The window is resized to w x h; onResize (line 157) runs while mounted
Resize(w, h) ==
    /\ phase # "torn"
    /\ UNCHANGED otherVars
    /\ <<w, h>> # <<innerWidth, innerHeight>>
    /\ innerWidth' = w
    /\ innerHeight' = h
    /\ pendingVw' = (IF phase = "active" THEN setVw(w) ELSE pendingVw)
    /\ UNCHANGED <<mountVars, captureVars, touchY, fingerY, pendingP, vw, textW,
                   moveStartLeft, startLeftPx, lastEv>>

\* ------------------------------------------------------------------------
\* Specification
\* ------------------------------------------------------------------------
\* no FlowingDescription instance, no function under evaluation
NoFlow == [mode |-> "none"]
NoProbe == [fn |-> "none"]

InitOverlay ==
    /\ phase = "intro"
    /\ p = 0
    /\ pendingP = Null
    /\ closureP = 0
    /\ listeners = FALSE
    /\ isCapturing = FALSE
    /\ bodyLocked = FALSE
    /\ touchY = Null
    /\ fingerY = Null
    /\ lastDy = 0
    /\ vw = 0
    /\ pendingVw = Null
    /\ textW = 0
    /\ moveStartLeft = Null
    /\ startLeftPx = 0
    /\ lastEv = NoEvent
    /\ lockedAtTeardown = FALSE
    /\ home = [introDone |-> FALSE, done |-> FALSE, onDoneCalls |-> 0, pending |-> FALSE]

SmallestWidth == CHOOSE w \in Widths : \A v \in Widths : w <= v
TallestHeight == CHOOSE h \in Heights : \A v \in Heights : h >= v

Wheel == \E e \in WheelInputs : onWheel(e[1], e[2])
TouchStart == \E y \in TouchYs : onTouchStart(y)
TouchMove == \E y \in TouchYs : onTouchMove(y)
TouchEnd == onTouchEnd
HeightResize == \E h \in Heights : Resize(innerWidth, h)

\* Spec: every input device, a window whose height changes and whose width
\* is fixed
Init ==
    /\ InitOverlay
    /\ flow = NoFlow
    /\ probe = NoProbe
    /\ innerHeight \in Heights
    /\ innerWidth = SmallestWidth

Next ==
    \/ IntroComplete
    \/ IntroDone
    \/ Wheel
    \/ TouchStart
    \/ TouchMove
    \/ TouchEnd
    \/ HeightResize
    \/ Render
    \/ Teardown

Spec == Init /\ [][Next]_vars

\* SpecLayout: pixel-mode wheel input, a window whose width changes and whose
\* height is fixed
PixelWheel == \E n \in Notches : onWheel(0, n * PixelStep)
WidthResize == \E w \in Widths : Resize(w, innerHeight)

InitLayout ==
    /\ InitOverlay
    /\ flow = NoFlow
    /\ probe = NoProbe
    /\ innerHeight = TallestHeight
    /\ innerWidth \in Widths

NextLayout ==
    \/ IntroComplete
    \/ IntroDone
    \/ PixelWheel
    \/ WidthResize
    \/ Render
    \/ Teardown

SpecLayout == InitLayout /\ [][NextLayout]_vars

\* ------------------------------------------------------------------------
\* Vocabulary of the properties
\* ------------------------------------------------------------------------
\* Q(d) holds of every step that is a wheel event, or a touchmove with a
\* stored touch position, of pixel delta d
ForInputDelta(Q(_)) ==
    /\ \A e \in WheelInputs :
          onWheel(e[1], e[2]) => Q(pixelDeltaY(e[1], e[2], innerHeight))
    /\ \A y \in TouchYs :
          (touchY # Null /\ onTouchMove(y)) => Q(touchY - y)

\* a touchmove that finds no stored touch position
IgnoredTouchMove == \E y \in TouchYs : touchY = Null /\ onTouchMove(y)

\* Progress as the application holds it: the queued update if there is one
LatestP == IF pendingP # Null THEN pendingP ELSE p

\* the handlers always close over the p of the last render
ClosureIsRenderedP == listeners => closureP = p

\* ------------------------------------------------------------------------
\* C1.  After any sequence of wheel, touchstart, touchmove, touchend and
\* resize events Progress lies in [0, MAX_P], whatever the deltas: the
\* rendered p, the queued update and the p the handlers read.
\* ------------------------------------------------------------------------
C1_ProgressClamped ==
    /\ p >= 0 /\ p <= MAX_P
    /\ pendingP # Null => (pendingP >= 0 /\ pendingP <= MAX_P)
    /\ closureP >= 0 /\ closureP <= MAX_P

\* a captured delta that would overshoot MAX_P has been clamped to it
C1_Witness ==
    /\ lastEv.prevented
    /\ lastEv.dy > 0
    /\ closureP < MAX_P
    /\ closureP + (lastEv.dy * PScale) \div (viewportOf(innerHeight) * 4) > MAX_P
    /\ pendingP = MAX_P

\* ------------------------------------------------------------------------
\* C2.  Capture / release cycle.  From p = 0 not capturing, a positive delta
\* sets the capture flag; while capturing with p < MAX_P a positive delta
\* keeps it set; while capturing with p = MAX_P a positive delta clears it;
\* not capturing at p = MAX_P, a negative delta sets it again.
\* ------------------------------------------------------------------------
C2_Step(d) ==
    /\ (~isCapturing /\ p = 0 /\ d > 0) => isCapturing'
    /\ (isCapturing /\ p < MAX_P /\ d > 0) => isCapturing'
    /\ (isCapturing /\ p = MAX_P /\ d > 0) => ~isCapturing'
    /\ (~isCapturing /\ p = MAX_P /\ d < 0) => isCapturing'

C3_LockedWhileCapturing == isCapturing /\ phase = "active" => bodyLocked

\* ------------------------------------------------------------------------
\* C4.  After the overlay is torn down, from whichever state, the body
\* scroll lock is off and none of its input listeners is registered.
\* ------------------------------------------------------------------------
C4_TeardownRestores == phase = "torn" => (~bodyLocked /\ ~listeners)

\* torn down while capturing with the lock applied and an update in flight
C4_Witness ==
    /\ phase = "torn"
    /\ lockedAtTeardown
    /\ isCapturing

\* ------------------------------------------------------------------------
\* C5.  For a captured wheel or touchmove event: if the Progress value the
\* event leaves is <= 0 and the delta negative, or >= MAX_P and the delta
\* positive, the same event releases capture and unlocks the body; in every
\* other case the capture flag stays true.
\* ------------------------------------------------------------------------
C5_Step(d) ==
    lastEv'.prevented =>
        IF (LatestP' <= 0 /\ d < 0) \/ (LatestP' >= MAX_P /\ d > 0)
        THEN ~isCapturing' /\ ~bodyLocked'
        ELSE isCapturing'

C5_ReleaseOnReachingBound == [][ForInputDelta(C5_Step)]_vars

\* ------------------------------------------------------------------------
\* C6.  Every captured wheel or touchmove event moves Progress by
\* delta / (viewportHeight * 4), clamped to [0, MAX_P], from the Progress the
\* previous event left, also when no render has happened in between.
\* ------------------------------------------------------------------------
C6_Step(d) ==
    lastEv'.prevented =>
        LatestP' = clamp(LatestP + (d * PScale) \div (viewportOf(innerHeight) * 4),
                         0, MAX_P)

C6_NoDeltaLost == [][ForInputDelta(C6_Step)]_vars

\* ------------------------------------------------------------------------
\* C7.  A wheel or touchmove event that takes the start-capture decision is
\* default-prevented exactly when the capture flag is true after that
\* decision (it was true before, or the event set it); an event that is not
\* captured, a touchmove without stored position included, leaves Progress,
\* the capture flag and the body lock unchanged.
\* ------------------------------------------------------------------------
C7_Step(d) ==
    /\ lastEv'.prevented <=> (isCapturing \/ isCapturing')
    /\ ~lastEv'.prevented => UNCHANGED <<p, pendingP, isCapturing, bodyLocked>>

C7_PreventedIffCaptured ==
    [][/\ ForInputDelta(C7_Step)
       /\ IgnoredTouchMove =>
            (~lastEv'.prevented /\ UNCHANGED <<p, pendingP, isCapturing, bodyLocked>>)
      ]_vars

\* a touchmove at p = 0 has just started capture and was default-prevented
C7_Witness ==
    /\ lastEv.kind = "touchmove"
    /\ lastEv.prevented
    /\ p = 0
    /\ pendingP > 0
    /\ isCapturing
    /\ bodyLocked

\* ------------------------------------------------------------------------
\* C8.  Not capturing at p = 0, a delta <= 0 does not start capturing; not
\* capturing at p = MAX_P, a delta >= 0 does not: Progress and the body lock
\* are unchanged and the event is not default-prevented.
\* ------------------------------------------------------------------------
C8_Step(d) ==
    (~isCapturing /\ ((p = 0 /\ d <= 0) \/ (p = MAX_P /\ d >= 0))) =>
        /\ UNCHANGED <<p, pendingP, isCapturing, bodyLocked>>
        /\ ~lastEv'.prevented

C8_NoStartOutward == [][ForInputDelta(C8_Step)]_vars

\* idle at MAX_P, an event of delta exactly 0 has been let through
C8_Witness ==
    /\ ~isCapturing
    /\ ~bodyLocked
    /\ p = MAX_P
    /\ pendingP = Null
    /\ lastEv.decided
    /\ lastEv.dy = 0
    /\ ~lastEv.prevented

\* ------------------------------------------------------------------------
\* C9.  In every state with p = 0 the rectangle height fraction, the
\* rectangle opacity and the text opacity are 0 and the capture flag is
\* false.
\* ------------------------------------------------------------------------
C9_AtZero ==
    (phase = "active" /\ p = 0 /\ pendingP = Null) =>
        /\ rectHeightVh(p) = 0
        /\ rectOpacity(p) = 0
        /\ textOpacity(p) = 0
        /\ ~isCapturing

\* ------------------------------------------------------------------------
\* C10.  For every p with 1 <= p <= MAX_P: rectangle height 100vh, rectangle
\* and text opacity 1, moveT = splitT = 1, heading left = target left (1% of
\* the viewport width), top = 70vh, inline gap 0, font size 12vw, whatever
\* start position the render used.
\* ------------------------------------------------------------------------
C10_Saturated ==
    (phase # "intro" /\ p >= PScale) =>
        /\ rectHeightVh(p) = 100 * One
        /\ rectOpacity(p) = One
        /\ textOpacity(p) = One
        /\ moveT(p) = One
        /\ splitT(p) = One
        /\ leftPx(startLeftPx, vw, p) = leftTargetPx(vw)
        /\ leftTargetPx(vw) * 100 = vw
        /\ topVh(p) = 70
        /\ mlEm(p) = 0
        /\ fontSizeVW(p) = 120

\* beyond p = 1 with a start position captured during the slide, right of
\* the target
C10_Witness ==
    /\ phase = "active"
    /\ p > PScale
    /\ moveStartLeft # Null
    /\ startLeftPx = moveStartLeft
    /\ startLeftPx > leftTargetPx(vw)

\* ------------------------------------------------------------------------
\* C11.  The delta a wheel event feeds to the capture decision and to the
\* Progress mapping is deltaY * 16 in lines mode, deltaY * max(innerHeight, 1)
\* in pages mode and deltaY otherwise; 3 lines give 48.
\* ------------------------------------------------------------------------
C11_Expected(deltaMode, deltaY) ==
    IF deltaMode = 1 THEN deltaY * 16
    ELSE IF deltaMode = 2 THEN deltaY * (IF innerHeight > 1 THEN innerHeight ELSE 1)
    ELSE deltaY

C11_Step(deltaMode, deltaY) ==
    LET d == C11_Expected(deltaMode, deltaY)
    IN  /\ lastEv'.dy = d
        /\ lastEv'.prevented =>
              /\ lastDy' = d
              /\ LatestP' = applyDelta(closureP, d, innerHeight)
        /\ (~isCapturing /\ closureP = 0) => (isCapturing' <=> d > 0)

C11_WheelNormalised ==
    [][\A e \in WheelInputs : onWheel(e[1], e[2]) => C11_Step(e[1], e[2])]_vars

\* a lines-mode wheel of deltaY = 3 was captured at p = 0 as 48 pixels
C11_Witness ==
    /\ lastEv.kind = "wheel"
    /\ lastEv.prevented
    /\ lastEv.dy = 48
    /\ lastDy = 3 * 16
    /\ closureP = 0
    /\ innerHeight = 16
    /\ pendingP = (48 * PScale) \div (16 * 4)

\* ------------------------------------------------------------------------
\* C12.  For every touchmove that follows a touchstart, the delta used is the
\* position of the immediately preceding touch event (the touchstart or the
\* previous touchmove) minus the current position, whether or not the
\* previous touchmove was captured.
\* ------------------------------------------------------------------------
C12_ConsecutiveTouchDelta ==
    [][\A y \in TouchYs :
          (touchY # Null /\ onTouchMove(y)) => lastEv'.dy = fingerY - y]_vars

\* ------------------------------------------------------------------------
\* C13.  A touchend releases capture and unlocks the body exactly when
\* Progress (the rendered p, which the handler reads) is <= 0 and the most
\* recently captured delta is negative, or Progress is >= MAX_P and that
\* delta is positive; otherwise the capture flag is unchanged.  It always
\* clears the stored touch position, and a touchmove that finds none is
\* ignored.
\* ------------------------------------------------------------------------
C13_Step ==
    /\ IF (p <= 0 /\ lastDy < 0) \/ (p >= MAX_P /\ lastDy > 0)
       THEN ~isCapturing' /\ ~bodyLocked'
       ELSE UNCHANGED <<isCapturing, bodyLocked>>
    /\ touchY' = Null
    /\ UNCHANGED <<p, pendingP, lastDy>>

C14_OnlyCapturedInputMovesProgress ==
    [][(phase' = "active" /\ LatestP' # LatestP) =>
          /\ Wheel \/ TouchMove
          /\ lastEv'.prevented
      ]_vars

\* a touchend arrived mid-range, after renders that measured the heading and
\* captured the slide start position, and Progress is still mid-range
C14_Witness ==
    /\ lastEv.kind = "touchend"
    /\ moveStartLeft # Null
    /\ textW > 0
    /\ LatestP > 0
    /\ LatestP < MAX_P

\* ------------------------------------------------------------------------
\* SpecRamp: ramp(v, inStart, inEnd) evaluated for every window
\* 0 <= inStart <= inEnd <= RampMax and every v from below the window to
\* above it
\* ------------------------------------------------------------------------
RampMax == 6

RampProbe(v, s, e) == [fn |-> "ramp", v |-> v, s |-> s, e |-> e, out |-> ramp(v, s, e)]

InitRamp ==
    /\ InitOverlay
    /\ innerHeight = TallestHeight
    /\ innerWidth = SmallestWidth
    /\ \E s \in 0 .. RampMax, e \in 0 .. RampMax :
          /\ s <= e
          /\ probe = RampProbe(-1, s, e)
    /\ flow = NoFlow

\* the next larger v
RampStep ==
    /\ probe.v <= RampMax
    /\ probe' = RampProbe(probe.v + 1, probe.s, probe.e)
    /\ UNCHANGED <<overlayVars, flow>>

NextRamp == RampStep

SpecRamp == InitRamp /\ [][NextRamp]_vars

\* ------------------------------------------------------------------------
\* C16.  For inStart < inEnd, ramp is non-decreasing in v, exactly 0 for
\* v <= inStart, exactly 1 for v >= inEnd, and always within [0, 1]; for
\* inStart = inEnd it is 1 when v >= inEnd and 0 otherwise.
\* ------------------------------------------------------------------------
C16_Values ==
    /\ probe.out >= 0 /\ probe.out <= One
    /\ probe.s < probe.e =>
          /\ probe.v <= probe.s => probe.out = 0
          /\ probe.v >= probe.e => probe.out = One
    /\ probe.s = probe.e => probe.out = (IF probe.v >= probe.e THEN One ELSE 0)

C16_Ramp == [] C16_Values /\ [][probe'.out >= probe.out]_vars

\* inside a proper window the value is strictly between 0 and 1
C16_Witness ==
    /\ probe.s < probe.v
    /\ probe.v < probe.e
    /\ probe.out > 0
    /\ probe.out < One

\* ------------------------------------------------------------------------
\* FlowingDescription: the text-flow layout engine
\*
\* A word is its number of characters, a text the sequence of its words
\* (splitWords), a line the sequence of the words joined by single spaces.
\* The hidden measurer is a font in which every character advances by the
\* font size.  Slot sizes stay in vw / vh and are compared in hundredths of a
\* pixel, the line height is in hundredths of an em.
\* ------------------------------------------------------------------------
MaxWords == 3
MaxWordLen == 2
MinFontPx == 2
MaxFontPx == 4
LineHeight100 == 115
TargetFill100 == 88
FlowWidths == {8, 16}
FlowHeights == {10, 20}

FontSizes == MinFontPx .. MaxFontPx
WordLens == 1 .. MaxWordLen
Texts == UNION {[1 .. n -> WordLens] : n \in 0 .. MaxWords}

Slot(l, t, w, h, m) == [leftVw |-> l, topVh |-> t, widthVw |-> w, heightVh |-> h, maxLines |-> m]
\* the shapes a slot is drawn from; Null is a slot without maxLines
SlotShapes ==
    { <<25, 10, Null>>, <<75, 50, Null>>, <<75, 50, 1>> }
SlotLists ==
    { << Slot(0, 0, a[1], a[2], a[3]), Slot(25, 10, b[1], b[2], b[3]) >> :
          a \in SlotShapes, b \in SlotShapes }

RECURSIVE SumSeq(_)
SumSeq(q) == IF q = <<>> THEN 0 ELSE q[1] + SumSeq(Tail(q))

\* line.length: the words and the spaces between them
LineLen(line) == IF line = <<>> THEN 0 ELSE SumSeq(line) + Len(line) - 1

\* meas.offsetWidth of a line at a font size
offsetWidth(line, sizePx) == LineLen(line) * sizePx

\* meas.offsetWidth <= slotPxW
fits_CurrentOnly(current, tentative, sizePx, slot, w) ==
    offsetWidth(current, sizePx) * 100 <= slot.widthVw * w
fits(current, tentative, sizePx, slot, w) ==
    offsetWidth(tentative, sizePx) * 100 <= slot.widthVw * w

\* Math.floor(slotPxH / (sizePx * lineHeight))
floorLines(slot, sizePx, h) == (slot.heightVh * h) \div (sizePx * LineHeight100)
capLines(slot, sizePx, h) == Max2(1, floorLines(slot, sizePx, h))
\* slot.maxLines ? Math.min(capLines, slot.maxLines) : capLines
maxLinesOf(slot, sizePx, h) ==
    IF slot.maxLines # Null /\ slot.maxLines # 0
    THEN Min2(capLines(slot, sizePx, h), slot.maxLines)
    ELSE capLines(slot, sizePx, h)

\* the greedy loop of one slot, from word idx (1-based) with the lines and
\* the current line built so far; wordLimit is the number of words that may
\* be consumed before the forced break (Null: no limit)
\* a loop that finalizes the line on overflow and moves past the overflowing
\* word instead of starting the next line with it
RECURSIVE fillSlot_SkipsOverflowWord(_, _, _, _, _, _, _, _)
fillSlot_SkipsOverflowWord(ws, idx, wordLimit, slotLines, current, slot, sizePx, win) ==
    IF /\ idx <= Len(ws)
       /\ Len(slotLines) < maxLinesOf(slot, sizePx, win[2])
       /\ ~(wordLimit # Null /\ idx - 1 >= wordLimit)
    THEN LET nextWord == ws[idx]
             tentative == Append(current, nextWord)
         IN  IF fits(current, tentative, sizePx, slot, win[1])
             THEN fillSlot_SkipsOverflowWord(ws, idx + 1, wordLimit, slotLines, tentative, slot, sizePx, win)
             ELSE IF current # <<>>
                  THEN fillSlot_SkipsOverflowWord(ws, idx + 1, wordLimit, Append(slotLines, current), <<>>, slot, sizePx, win)
                  ELSE fillSlot_SkipsOverflowWord(ws, idx + 1, wordLimit, Append(slotLines, <<nextWord>>), <<>>, slot, sizePx, win)
    ELSE [idx |-> idx,
          lines |-> IF current # <<>> /\ Len(slotLines) < maxLinesOf(slot, sizePx, win[2])
                    THEN Append(slotLines, current)
                    ELSE slotLines]

RECURSIVE fillSlot(_, _, _, _, _, _, _, _)
fillSlot(ws, idx, wordLimit, slotLines, current, slot, sizePx, win) ==
    IF /\ idx <= Len(ws)
       /\ Len(slotLines) < maxLinesOf(slot, sizePx, win[2])
       /\ ~(wordLimit # Null /\ idx - 1 >= wordLimit)
    THEN LET nextWord == ws[idx]
             tentative == Append(current, nextWord)
         IN  IF fits(current, tentative, sizePx, slot, win[1])
             THEN fillSlot(ws, idx + 1, wordLimit, slotLines, tentative, slot, sizePx, win)
             ELSE IF current # <<>>
                  THEN fillSlot(ws, idx, wordLimit, Append(slotLines, current), <<>>, slot, sizePx, win)
                  ELSE fillSlot(ws, idx + 1, wordLimit, Append(slotLines, <<nextWord>>), <<>>, slot, sizePx, win)
    ELSE [idx |-> idx,
          lines |-> IF current # <<>> /\ Len(slotLines) < maxLinesOf(slot, sizePx, win[2])
                    THEN Append(slotLines, current)
                    ELSE slotLines]

\* Array.isArray(slotTexts) && slotTexts.length === slots.length
independentMode(f) == f.hasSlotTexts /\ Len(f.slotTexts) = Len(f.slots)

SetMin(S) == CHOOSE x \in S : \A y \in S : x <= y
SetMax(S) == CHOOSE x \in S : \A y \in S : x >= y

\* the slots merged into one encompassing slot when requested
effectiveSlots(f) ==
    IF independentMode(f) THEN f.slots
    ELSE IF ~f.collapseToSingle \/ Len(f.slots) <= 1 THEN f.slots
    ELSE LET I == 1 .. Len(f.slots)
             left == SetMin({f.slots[i].leftVw : i \in I})
             top == SetMin({f.slots[i].topVh : i \in I})
             right == SetMax({f.slots[i].leftVw + f.slots[i].widthVw : i \in I})
             bottom == SetMax({f.slots[i].topVh + f.slots[i].heightVh : i \in I})
         IN  << Slot(left, top, right - left, bottom - top, Null) >>

\* (forcedBreakWordIndices || []).slice().sort((a, b) => a - b)
RECURSIVE sortAsc(_)
sortAsc(q) ==
    IF q = <<>> THEN <<>>
    ELSE LET m == SetMin({q[i] : i \in 1 .. Len(q)})
             k == CHOOSE i \in 1 .. Len(q) : q[i] = m
         IN  <<m>> \o sortAsc(SubSeq(q, 1, k - 1) \o SubSeq(q, k + 1, Len(q)))

\* breaks[sIdx] ?? Infinity, for the slot at position s (1-based)
wordLimitOf(f, s) ==
    LET breaks == sortAsc(f.breaks)
    IN  IF s <= Len(breaks) THEN breaks[s] ELSE Null

LayoutResult(lines, fit, used, cap, sizePx) ==
    [lines |-> lines, allWordsFit |-> fit, used |-> used, cap |-> cap, sizePx |-> sizePx]

\* independent mode: each slot lays out its own text; the first slot that
\* cannot take all its words ends the layout
RECURSIVE layoutIndependent(_, _, _, _, _, _, _)
layoutIndependent(f, s, lines, cap, used, sizePx, win) ==
    IF s > Len(effectiveSlots(f))
    THEN LayoutResult(lines, TRUE, used, cap, sizePx)
    ELSE LET slot == effectiveSlots(f)[s]
             slotWords == f.slotTexts[s]
             r == fillSlot(slotWords, 1, Null, <<>>, <<>>, slot, sizePx, win)
             cap1 == cap + maxLinesOf(slot, sizePx, win[2])
             used1 == used + Len(r.lines)
             lines1 == Append(lines, r.lines)
         IN  IF r.idx <= Len(slotWords)
             THEN LayoutResult(lines1, FALSE, used1, cap1, sizePx)
             ELSE layoutIndependent(f, s + 1, lines1, cap1, used1, sizePx, win)

\* flow mode: the words continue from slot to slot
RECURSIVE layoutFlow(_, _, _, _, _, _, _, _)
layoutFlow(f, s, wIdx, lines, cap, used, sizePx, win) ==
    IF s > Len(effectiveSlots(f))
    THEN LayoutResult(lines, Len(f.text) = wIdx - 1, used, cap, sizePx)
    ELSE LET slot == effectiveSlots(f)[s]
             r == fillSlot(f.text, wIdx, wordLimitOf(f, s), <<>>, <<>>, slot, sizePx, win)
         IN  layoutFlow(f, s + 1, r.idx, Append(lines, r.lines),
                        cap + maxLinesOf(slot, sizePx, win[2]),
                        used + Len(r.lines), sizePx, win)

layoutAt(f, sizePx, win) ==
    IF independentMode(f)
    THEN layoutIndependent(f, 1, <<>>, 0, 0, sizePx, win)
    ELSE layoutFlow(f, 1, 1, <<>>, 0, 0, sizePx, win)

\* attempt.fillRatio >= targetFillRatio, fillRatio = used / Math.max(1, cap)
fillsEnough_Inverted(r, target100) == r.used * 100 <= target100 * Max2(1, r.cap)
fillsEnough(r, target100) == r.used * 100 >= target100 * Max2(1, r.cap)

\* the growth loop from size sz on; tried collects every layout computed
\* a growth loop that accepts a size without looking at allWordsFit
RECURSIVE grow_AcceptsOverflow(_, _, _, _, _)
grow_AcceptsOverflow(f, sz, best, tried, win) ==
    IF sz > MaxFontPx THEN [best |-> best, tried |-> tried]
    ELSE LET attempt == layoutAt(f, sz, win)
         IN  IF fillsEnough(attempt, f.targetFillRatio)
             THEN [best |-> attempt, tried |-> Append(tried, attempt)]
             ELSE grow_AcceptsOverflow(f, sz + 1, attempt, Append(tried, attempt), win)

RECURSIVE grow(_, _, _, _, _)
grow(f, sz, best, tried, win) ==
    IF sz > MaxFontPx THEN [best |-> best, tried |-> tried]
    ELSE LET attempt == layoutAt(f, sz, win)
         IN  IF ~attempt.allWordsFit
             THEN [best |-> best, tried |-> Append(tried, attempt)]
             ELSE IF fillsEnough(attempt, f.targetFillRatio)
                  THEN [best |-> attempt, tried |-> Append(tried, attempt)]
                  ELSE grow(f, sz + 1, attempt, Append(tried, attempt), win)

\* recalc: css is the computed font size of the measurer (0: not a number)
recalc(f, win, css) ==
    IF ~f.autoSize
    THEN LET defaultSize == IF css # 0 THEN css ELSE MinFontPx
             r == layoutAt(f, defaultSize, win)
         IN  [f EXCEPT !.fontSizePx = defaultSize, !.linesPerSlot = r.lines,
                       !.tried = <<r>>]
    ELSE LET first == layoutAt(f, MinFontPx, win)
             g == grow(f, MinFontPx + 1, first, <<first>>, win)
         IN  [f EXCEPT !.fontSizePx = g.best.sizePx, !.linesPerSlot = g.best.lines,
                       !.tried = g.tried]

\* ------------------------------------------------------------------------
\* SpecFlow: one FlowingDescription instance, mounted once and laid out
\* again on every window resize
\* ------------------------------------------------------------------------
BreakLists == {<<>>, <<1>>, <<2, 1>>}
CssSizes == {0, MaxFontPx}

\* the instance before its layout effect has run
FlowProps(slots, text, hasSlotTexts, slotTexts, breaks, collapse, auto) ==
    [slots |-> slots, text |-> text, hasSlotTexts |-> hasSlotTexts,
     slotTexts |-> slotTexts, breaks |-> breaks,
     collapseToSingle |-> collapse, autoSize |-> auto, mounted |-> FALSE,
     linesPerSlot |-> [i \in 1 .. Len(slots) |-> <<>>], fontSizePx |-> 16,
     targetFillRatio |-> TargetFill100, tried |-> <<>>]

IndependentInstances ==
    { FlowProps(sl, <<>>, TRUE, <<a, b>>, <<>>, FALSE, auto) :
          sl \in SlotLists, a \in Texts, b \in Texts, auto \in BOOLEAN }
FlowingInstances ==
    { FlowProps(sl, t, FALSE, <<>>, x[1], x[2], auto) :
          sl \in SlotLists, t \in Texts, x \in BreakLists \X BOOLEAN, auto \in BOOLEAN }

nonWindowVars ==
    <<mountVars, captureVars, touchY, fingerY, pendingP, vw, pendingVw, textW,
      moveStartLeft, startLeftPx, lastEv>>

InitFlow ==
    /\ InitOverlay
    /\ innerWidth = SetMin(FlowWidths)
    /\ innerHeight = SetMin(FlowHeights)
    /\ flow \in IndependentInstances \cup FlowingInstances
    /\ probe = NoProbe

\* useLayoutEffect: recalc() and the resize listener
FlowMount ==
    /\ ~flow.mounted
    /\ \E css \in CssSizes :
          /\ flow.autoSize => css = 0
          /\ flow' = [recalc(flow, <<innerWidth, innerHeight>>, css) EXCEPT !.mounted = TRUE]
    /\ UNCHANGED <<overlayVars, probe>>

\* window resize: onR = () => recalc()
FlowResize(w, h) ==
    /\ flow.mounted
    /\ <<w, h>> # <<innerWidth, innerHeight>>
    /\ innerWidth' = w
    /\ innerHeight' = h
    /\ \E css \in CssSizes :
          /\ flow.autoSize => css = 0
          /\ flow' = recalc(flow, <<w, h>>, css)
    /\ UNCHANGED <<nonWindowVars, probe>>

NextFlow ==
    \/ FlowMount
    \/ \E w \in FlowWidths, h \in FlowHeights : FlowResize(w, h)

SpecFlow == InitFlow /\ [][NextFlow]_vars

\* the words laid out into slot s (independent mode) or into the slots
WordsOf(s) == IF independentMode(flow) THEN flow.slotTexts[s] ELSE flow.text
\* every line of every slot of every layout computed by the last recalc
TriedLines ==
    { <<k, s, l>> \in (1 .. (MaxFontPx - MinFontPx + 1)) \X (1 .. 2) \X (1 .. 8) :
          /\ k <= Len(flow.tried)
          /\ s <= Len(flow.tried[k].lines)
          /\ l <= Len(flow.tried[k].lines[s]) }
WiderThanSlot(line, k, s) ==
    offsetWidth(line, flow.tried[k].sizePx) * 100 > effectiveSlots(flow)[s].widthVw * innerWidth

\* ------------------------------------------------------------------------
\* C19.  At every font size tried, in independent and in flowing mode: a
\* line wider than its slot consists of one word that is itself wider than
\* the slot; so when every word fits the slot no line is wider than it, and
\* a word wider than the slot is alone on its line.
\* ------------------------------------------------------------------------
C19_LinesFitOrSingleWord ==
    flow.mounted =>
        \A x \in TriedLines :
            LET line == flow.tried[x[1]].lines[x[2]][x[3]]
            IN  /\ WiderThanSlot(line, x[1], x[2]) => Len(line) = 1
                /\ (\E i \in 1 .. Len(line) : WiderThanSlot(<<line[i]>>, x[1], x[2]))
                       => Len(line) = 1
                /\ (\A i \in 1 .. Len(WordsOf(x[2])) :
                        ~WiderThanSlot(<<WordsOf(x[2])[i]>>, x[1], x[2]))
                       => ~WiderThanSlot(line, x[1], x[2])

\* independent mode: a word wider than its slot sits alone on a line, and
\* another line of that layout holds two words
C19_Witness ==
    /\ flow.mounted
    /\ independentMode(flow)
    /\ \E x \in TriedLines, y \in TriedLines :
          /\ x[1] = y[1]
          /\ WiderThanSlot(flow.tried[x[1]].lines[x[2]][x[3]], x[1], x[2])
          /\ Len(flow.tried[y[1]].lines[y[2]][y[3]]) = 2

\* the same in flowing mode
C19_WitnessFlowing ==
    /\ flow.mounted
    /\ ~independentMode(flow)
    /\ \E x \in TriedLines, y \in TriedLines :
          /\ x[1] = y[1]
          /\ WiderThanSlot(flow.tried[x[1]].lines[x[2]][x[3]], x[1], x[2])
          /\ Len(flow.tried[y[1]].lines[y[2]][y[3]]) = 2

\* ------------------------------------------------------------------------
\* C20.  At every font size tried, the number of lines of a slot is at most
\* floor(slotHeightPx / (fontSizePx * lineHeight)) and at most the slot's
\* maxLines when the slot has one.
\* ------------------------------------------------------------------------
C20_LinesWithinCapacity ==
    flow.mounted =>
        \A k \in 1 .. Len(flow.tried) : \A s \in 1 .. Len(flow.tried[k].lines) :
            LET slot == effectiveSlots(flow)[s]
                n == Len(flow.tried[k].lines[s])
            IN  /\ n <= floorLines(slot, flow.tried[k].sizePx, innerHeight)
                /\ slot.maxLines # Null => n <= slot.maxLines

\* ------------------------------------------------------------------------
\* Progressive reveal: revealT and the two character counters
\* ------------------------------------------------------------------------
\* revealT = clamp((p - SLICE_START) / (SLICE_END - SLICE_START)) as the
\* fraction revealNum / revealDen
SLICE_END == MAX_P
revealDen == SLICE_END - SLICE_START
revealNum_Unclamped(pp) == pp - SLICE_START
revealNum(pp) == clamp(pp - SLICE_START, 0, revealDen)
\* revealT in One units
revealT(pp) == (revealNum(pp) * One) \div revealDen
\* Math.floor(total * revealT)
floorOfReveal(total, pp) == (total * revealNum(pp)) \div revealDen

\* s.text.length of the segments of the two biography paragraphs
p1 == <<79, 23, 6, 7, 27, 33>>
p2 == <<17, 24, 9, 9, 42, 21, 23, 33, 4, 21, 34, 21, 14>>
totalLen == SumSeq(p1 \o p2)

\* the characters taken from segments (or lines) of the given lengths, in
\* order, out of a budget: take = max(0, min(length, left)); left -= take
RECURSIVE takes(_, _)
takes(lens, left) ==
    IF lens = <<>> THEN <<>>
    ELSE LET take == Max2(0, Min2(lens[1], left))
         IN  <<take>> \o takes(Tail(lens), left - take)

\* sliceSegs(segs, remaining).used = remaining - left
sliceSegsUsed(segs, remaining) == SumSeq(takes(segs, remaining))

charCount(pp) == floorOfReveal(totalLen, pp)
part1Used(pp) == sliceSegsUsed(p1, charCount(pp))
part2Used(pp) == sliceSegsUsed(p2, Max2(0, charCount(pp) - part1Used(pp)))
\* the biography characters on screen: the block is rendered when revealT > 0
bioVisible(pp) == IF revealNum(pp) > 0 THEN part1Used(pp) + part2Used(pp) ELSE 0

\* linesPerSlot.flat(), each line as its length
RECURSIVE flatLens(_)
flatLens(lps) ==
    IF lps = <<>> THEN <<>>
    ELSE [i \in 1 .. Len(lps[1]) |-> LineLen(lps[1][i])] \o flatLens(Tail(lps))

\* allText.length: the lines joined by "\n"
totalChars(lps) ==
    LET ls == flatLens(lps)
    IN  IF ls = <<>> THEN 0 ELSE SumSeq(ls) + Len(ls) - 1
visibleChars(lps, pp) == floorOfReveal(totalChars(lps), pp)
\* the characters of the lines on screen
flowVisible(lps, pp) == SumSeq(takes(flatLens(lps), visibleChars(lps, pp)))

\* ------------------------------------------------------------------------
\* SpecReveal: Progress scrubbed upwards through [0, MAX_P] in steps of one
\* unit, for a few laid-out FlowingDescription instances
\* ------------------------------------------------------------------------
RevealWin == <<SetMax(FlowWidths), SetMax(FlowHeights)>>
RevealFlows ==
    { [recalc(FlowProps(<<Slot(0, 0, 75, 50, Null), Slot(25, 10, 75, 50, Null)>>,
                        <<>>, TRUE, <<a, b>>, <<>>, FALSE, TRUE), RevealWin, 0)
          EXCEPT !.mounted = TRUE] :
          a \in {<<2, 1, 2>>, <<1>>}, b \in {<<2, 2>>, <<>>} }

RevealProbe(pp) ==
    [fn |-> "reveal", p |-> pp, revealT |-> revealT(pp),
     charCount |-> charCount(pp), bioVisible |-> bioVisible(pp),
     visibleChars |-> visibleChars(flow.linesPerSlot, pp),
     flowVisible |-> flowVisible(flow.linesPerSlot, pp)]

InitReveal ==
    /\ InitOverlay
    /\ innerWidth = RevealWin[1]
    /\ innerHeight = RevealWin[2]
    /\ flow \in RevealFlows
    /\ probe = RevealProbe(0)

RevealStep ==
    /\ probe.p < MAX_P
    /\ probe' = RevealProbe(probe.p + 1)
    /\ UNCHANGED <<overlayVars, flow>>

NextReveal == RevealStep

SpecReveal == InitReveal /\ [][NextReveal]_vars

\* ------------------------------------------------------------------------
\* C15.  revealT is non-decreasing in p, 0 for p <= SLICE_START and 1 at
\* p = MAX_P; the character counters of the biography and of the flowing
\* text are non-decreasing in p, show no character at the window start and
\* every character at the window end.
\* ------------------------------------------------------------------------
C15_Ends ==
    /\ probe.p <= SLICE_START =>
          /\ probe.revealT = 0
          /\ probe.charCount = 0 /\ probe.bioVisible = 0
          /\ probe.visibleChars = 0 /\ probe.flowVisible = 0
    /\ probe.p = MAX_P =>
          /\ probe.revealT = One
          /\ probe.charCount = totalLen /\ probe.bioVisible = totalLen
          /\ probe.visibleChars = totalChars(flow.linesPerSlot)
          /\ probe.flowVisible = SumSeq(flatLens(flow.linesPerSlot))

C15_Step ==
    /\ probe'.revealT >= probe.revealT
    /\ probe'.charCount >= probe.charCount
    /\ probe'.bioVisible >= probe.bioVisible
    /\ probe'.visibleChars >= probe.visibleChars
    /\ probe'.flowVisible >= probe.flowVisible

C15_RevealMonotone == [] C15_Ends /\ [][C15_Step]_vars

\* inside the window both texts are partly shown
C15_Witness ==
    /\ probe.p > SLICE_START
    /\ probe.p < MAX_P
    /\ probe.bioVisible > 0
    /\ probe.bioVisible < totalLen
    /\ probe.flowVisible > 0
    /\ probe.flowVisible < SumSeq(flatLens(flow.linesPerSlot))

\* ------------------------------------------------------------------------
\* C17.  The rendered values depend only on the latest Progress and the
\* latest geometry: the heading's left position is the one derived from the
\* rendered p, vw and textW (the slide from the centered position of that
\* geometry), whatever the order of the resize and input events before.
\* ------------------------------------------------------------------------
\* the left position on screen
renderedLeftPx == leftPx(startLeftPx, vw, p)
\* the left position derived from the latest Progress and geometry alone
latestLeftPx == leftPx(centerLeftPx(vw, textW), vw, p)

C17_PureOfLatest == phase = "active" => renderedLeftPx = latestLeftPx

\* ------------------------------------------------------------------------
\* C18.  The activation flag starts false and is set by IntroType's
\* completion callback exactly once: the callback is invoked once, the flag
\* never returns to false, and while it is false the overlay is not mounted
\* and no input listener is attached.
\* ------------------------------------------------------------------------
C18_State ==
    /\ home.onDoneCalls <= 1
    /\ home.introDone => home.onDoneCalls = 1
    /\ ~home.introDone => phase = "intro" /\ ~listeners

C18_ActivatedOnce ==
    /\ ~home.introDone
    /\ [] C18_State
    /\ [][home.introDone => home'.introDone]_vars

\* ------------------------------------------------------------------------
\* C21.  Flowing mode, at every font size tried: the words of the produced
\* lines, read line by line in slot order, are a prefix of the source words,
\* and the prefix is the whole text exactly when allWordsFit is true.
\* ------------------------------------------------------------------------
\* the elements of the sequences of q, in order
RECURSIVE Concat(_)
Concat(q) == IF q = <<>> THEN <<>> ELSE q[1] \o Concat(Tail(q))
\* the words of a layout's lines, line by line in slot order
PlacedWords(r) == Concat(Concat(r.lines))

C21_FlowIsPrefix ==
    (flow.mounted /\ ~independentMode(flow)) =>
        \A k \in 1 .. Len(flow.tried) :
            LET placed == PlacedWords(flow.tried[k])
            IN  /\ Len(placed) <= Len(flow.text)
                /\ placed = SubSeq(flow.text, 1, Len(placed))
                /\ flow.tried[k].allWordsFit <=> Len(placed) = Len(flow.text)

\* a forced break is given, both slots hold lines, the first slot holds as
\* many lines as it may, and of two layouts tried one places every word and
\* one does not
C21_Witness ==
    /\ flow.mounted
    /\ ~independentMode(flow)
    /\ flow.breaks # <<>>
    /\ \E k \in 1 .. Len(flow.tried), j \in 1 .. Len(flow.tried) :
          /\ Len(flow.tried[k].lines) = 2
          /\ flow.tried[k].lines[1] # <<>>
          /\ flow.tried[k].lines[2] # <<>>
          /\ flow.tried[k].allWordsFit
          /\ ~flow.tried[j].allWordsFit
          /\ PlacedWords(flow.tried[j]) # <<>>

\* without a forced break: the first slot is filled to its capacity and the
\* text goes on in the second
C21_WitnessCapacity ==
    /\ flow.mounted
    /\ ~independentMode(flow)
    /\ flow.breaks = <<>>
    /\ \E k \in 1 .. Len(flow.tried) :
          /\ Len(flow.tried[k].lines) = 2
          /\ Len(flow.tried[k].lines[1]) =
                 maxLinesOf(effectiveSlots(flow)[1], flow.tried[k].sizePx, innerHeight)
          /\ flow.tried[k].lines[2] # <<>>

\* ------------------------------------------------------------------------
\* C22.  With autoSize, the chosen font size is the first size, from
\* minFontPx upwards, whose fill ratio reaches targetFillRatio; when no
\* feasible size reaches it, the largest feasible size; never above
\* maxFontPx.
\* ------------------------------------------------------------------------
\* every word is placed at size sz, for the window of the current state
Feasible(sz) == layoutAt(flow, sz, <<innerWidth, innerHeight>>).allWordsFit
\* the fill ratio at size sz reaches the target
Fills(sz) == fillsEnough(layoutAt(flow, sz, <<innerWidth, innerHeight>>), flow.targetFillRatio)
\* the sizes the upward search can stop at because the target is reached
ReachingSizes ==
    {sz \in FontSizes : Fills(sz) /\ \A t \in MinFontPx .. sz : Feasible(t)}

C22_ChosenSize ==
    (flow.mounted /\ flow.autoSize /\ Feasible(MinFontPx)) =>
        /\ flow.fontSizePx <= MaxFontPx
        /\ flow.fontSizePx =
              IF ReachingSizes # {} THEN SetMin(ReachingSizes)
              ELSE SetMax({sz \in FontSizes : Feasible(sz)})

\* every word of every source text is in a line of linesPerSlot
AllWordsPlaced ==
    IF independentMode(flow)
    THEN \A sl \in 1 .. Len(flow.slots) :
             /\ sl <= Len(flow.linesPerSlot)
             /\ Concat(flow.linesPerSlot[sl]) = flow.slotTexts[sl]
    ELSE Concat(Concat(flow.linesPerSlot)) = flow.text

\* ------------------------------------------------------------------------
\* C23.  The layout chosen by the auto-sizing search places every word of
\* every source text.
\* ------------------------------------------------------------------------
C23_ChosenPlacesAll == (flow.mounted /\ flow.autoSize) => AllWordsPlaced

\* C23 as amended.  A size above minFontPx is chosen only if it places every
\* word of every source text; words are left unplaced only at minFontPx,
\* which is taken without the test.
C23_ChosenAboveMinPlacesAll ==
    (flow.mounted /\ flow.autoSize) =>
        /\ flow.fontSizePx > MinFontPx => AllWordsPlaced
        /\ ~AllWordsPlaced => flow.fontSizePx = MinFontPx /\ ~Feasible(MinFontPx)

\* the search went above the minimum and stopped at a size that leaves
\* words unplaced; the size before it was chosen
C23_Witness ==
    /\ flow.mounted
    /\ flow.autoSize
    /\ flow.fontSizePx > MinFontPx
    /\ flow.fontSizePx < MaxFontPx
    /\ ~flow.tried[Len(flow.tried)].allWordsFit
    /\ AllWordsPlaced

\* ------------------------------------------------------------------------
\* SpecTarget: an auto-sizing FlowingDescription whose targetFillRatio prop
\* changes; recalc is a new callback then, and the layout effect runs it
\* ------------------------------------------------------------------------
\* targetFillRatio in hundredths
Targets100 == {50, TargetFill100, 100}

InitTarget ==
    /\ InitOverlay
    /\ innerWidth \in FlowWidths
    /\ innerHeight \in FlowHeights
    /\ flow \in {f \in IndependentInstances \cup FlowingInstances :
                    f.autoSize /\ f.breaks = <<>> /\ ~f.collapseToSingle}
    /\ probe = NoProbe

\* the props change to targetFillRatio = t: useLayoutEffect([recalc]) runs
\* recalc(); probe keeps the target and the font size of the layout before
FlowRetarget(t) ==
    /\ flow.mounted
    /\ t # flow.targetFillRatio
    /\ flow' = recalc([flow EXCEPT !.targetFillRatio = t], <<innerWidth, innerHeight>>, 0)
    /\ probe' = [fn |-> "retarget", target |-> flow.targetFillRatio,
                 fontSizePx |-> flow.fontSizePx]
    /\ UNCHANGED overlayVars

NextTarget ==
    \/ FlowMount
    \/ \E t \in Targets100 : FlowRetarget(t)

SpecTarget == InitTarget /\ [][NextTarget]_vars

\* ------------------------------------------------------------------------
\* C24.  For the same texts, slots, viewport and size range, a larger
\* targetFillRatio never gives a smaller chosen font size.
\* ------------------------------------------------------------------------
C24_Step ==
    \A t \in Targets100 :
        FlowRetarget(t) =>
            /\ flow.targetFillRatio <= t => flow.fontSizePx <= flow'.fontSizePx
            /\ flow.targetFillRatio >= t => flow.fontSizePx >= flow'.fontSizePx

C24_TargetMonotone == [][C24_Step]_vars

\* a larger target gave a strictly larger font size
C24_Witness ==
    /\ probe.fn = "retarget"
    /\ probe.target < flow.targetFillRatio
    /\ probe.fontSizePx < flow.fontSizePx

\* ------------------------------------------------------------------------
\* SpecZero: FlowingDescription in a window that has, or is resized to, zero
\* width or height.  (measureRef.current is set whenever recalc runs: the
\* measurer span is rendered unconditionally and the resize listener is
\* removed on unmount, so the guard of line 75 does not fire.)
\* ------------------------------------------------------------------------
ZeroWidths == {0, SetMin(FlowWidths)}
ZeroHeights == {0, SetMin(FlowHeights)}

InitZero ==
    /\ InitOverlay
    /\ innerWidth = 0
    /\ innerHeight = 0
    /\ flow \in IndependentInstances \cup FlowingInstances
    /\ probe = NoProbe

NextZero ==
    \/ FlowMount
    \/ \E w \in ZeroWidths, h \in ZeroHeights : FlowResize(w, h)

SpecZero == InitZero /\ [][NextZero]_vars

\* ------------------------------------------------------------------------
\* C25.  A layout computed for a viewport of zero size gives every slot an
\* empty line assignment.
\* ------------------------------------------------------------------------
C25_ZeroViewportEmpty ==
    (flow.mounted /\ innerWidth = 0 /\ innerHeight = 0) =>
        \A sl \in 1 .. Len(flow.linesPerSlot) : flow.linesPerSlot[sl] = <<>>

\* ------------------------------------------------------------------------
\* C26.  In the flowing-text renderer the number of visible characters is
\* floor(N * revealT), N being the number of characters of the produced
\* lines, and the visible characters are the first ones of the lines taken
\* in slot order.
\* ------------------------------------------------------------------------
\* the number of characters of the produced lines
lineChars(lps) == SumSeq(flatLens(lps))
\* the visible characters of each line, as rendered
lineTakes == takes(flatLens(flow.linesPerSlot), probe.visibleChars)

C26_VisibleIsFloor ==
    /\ probe.flowVisible = floorOfReveal(lineChars(flow.linesPerSlot), probe.p)
    /\ \A i \in 1 .. Len(lineTakes) : \A j \in 1 .. Len(lineTakes) :
           (i < j /\ lineTakes[j] > 0) => lineTakes[i] = flatLens(flow.linesPerSlot)[i]

\* ------------------------------------------------------------------------
\* C27.  The slide start position is captured at the first render with
\* moveT > 0, as the centered position of that render, is kept by every
\* later render, resize and text-width change while moveT stays > 0, and is
\* unknown again once a render has moveT = 0; the rendered left is never
\* smaller than the target left.
\* ------------------------------------------------------------------------
C27_State ==
    phase = "active" =>
        /\ moveStartLeft # Null <=> moveT(p) > 0
        /\ renderedLeftPx >= leftTargetPx(vw)

C27_Step ==
    phase' = "active" =>
        /\ (moveStartLeft # Null /\ moveStartLeft' # Null) => moveStartLeft' = moveStartLeft
        /\ (moveStartLeft = Null /\ moveStartLeft' # Null) =>
               moveStartLeft' = centerLeftPx(vw', textW)

C27_CapturedOnce == [] C27_State /\ [][C27_Step]_vars

\* mid-slide, after the window and the measured text width have changed:
\* the start kept is no longer the centered position of the geometry
C27_Witness ==
    /\ phase = "active"
    /\ moveT(p) > 0
    /\ moveT(p) < One
    /\ moveStartLeft # Null
    /\ moveStartLeft # centerLeftPx(vw, textW)
    /\ pendingP = Null
    /\ pendingVw = Null

\* ------------------------------------------------------------------------
\* C28.  Whenever the capture flag is false, the rendered Progress is
\* exactly 0 or exactly MAX_P.
\* ------------------------------------------------------------------------
C28_IdleOnlyAtBounds ==
    (phase = "active" /\ ~isCapturing) =>
        /\ p = 0 \/ p = MAX_P
        /\ LatestP = 0 \/ LatestP = MAX_P

\* a captured wheel event at the end of the range has released the capture
C28_Witness ==
    /\ phase = "active" /\ ~isCapturing /\ p = MAX_P /\ pendingP = Null
    /\ lastEv.kind = "wheel" /\ lastEv.capBefore

\* ------------------------------------------------------------------------
\* C29.  In independent mode the lines of slot i at a given size depend only
\* on slot i's text and geometry: with the text of another slot j replaced
\* by any other text, every layout computed by recalc gives slot i the same
\* lines, and the lines of slot i are consecutive words of slot i's text.
\* ------------------------------------------------------------------------
\* lines[sIdx] of a layout; a slot the loop never reached has none
LinesOfSlot(r, i) == IF i <= Len(r.lines) THEN r.lines[i] ELSE <<>>

C29_SlotsIndependent ==
    (flow.mounted /\ independentMode(flow)) =>
        \A k \in 1 .. Len(flow.tried) :
            \A i \in 1 .. Len(flow.slots) :
                LET r == flow.tried[k]
                    placed == Concat(LinesOfSlot(r, i))
                IN  /\ Len(placed) <= Len(flow.slotTexts[i])
                    /\ placed = SubSeq(flow.slotTexts[i], 1, Len(placed))
                    /\ \A j \in (1 .. Len(flow.slots)) \ {i} :
                           \A t \in Texts :
                               LinesOfSlot(layoutAt([flow EXCEPT !.slotTexts[j] = t],
                                                    r.sizePx,
                                                    <<innerWidth, innerHeight>>), i)
                                   = LinesOfSlot(r, i)

\* ------------------------------------------------------------------------
\* One layoutAt call, iteration by iteration.  probe holds the locals of the
\* call: the slot being filled (s), the next word (idx), the lines of the
\* slot so far, the line being built, the lines of the finished slots, and
\* the number of iterations of the current slot's while loop.
\* ------------------------------------------------------------------------
LayoutProbe(sizePx, s, idx, slotLines, current, lines, iter, done) ==
    [fn |-> "layout", sizePx |-> sizePx, s |-> s, idx |-> idx,
     slotLines |-> slotLines, current |-> current, lines |-> lines,
     iter |-> iter, done |-> done]

\* the words and the line capacity of the slot being filled
loopWords(pr) == WordsOf(pr.s)
loopMaxLines(pr) == maxLinesOf(effectiveSlots(flow)[pr.s], pr.sizePx, innerHeight)

\* the condition of the while loop, with the forced break of line 140
loopRuns(pr) ==
    /\ pr.idx <= Len(loopWords(pr))
    /\ Len(pr.slotLines) < loopMaxLines(pr)
    /\ ~independentMode(flow) =>
           ~(wordLimitOf(flow, pr.s) # Null /\ pr.idx - 1 >= wordLimitOf(flow, pr.s))

\* a loop body that leaves a word wider than the slot where it is
whileBody_StuckOnLongWord(pr) ==
    LET nextWord == loopWords(pr)[pr.idx]
        tentative == Append(pr.current, nextWord)
    IN  IF fits(pr.current, tentative, pr.sizePx, effectiveSlots(flow)[pr.s], innerWidth)
        THEN [pr EXCEPT !.current = tentative, !.idx = @ + 1, !.iter = @ + 1]
        ELSE IF pr.current # <<>>
             THEN [pr EXCEPT !.slotLines = Append(@, pr.current), !.current = <<>>,
                             !.iter = @ + 1]
             ELSE [pr EXCEPT !.iter = @ + 1]

\* one iteration of the while loop, lines 99-113 and 141-155
whileBody(pr) ==
    LET nextWord == loopWords(pr)[pr.idx]
        tentative == Append(pr.current, nextWord)
    IN  IF fits(pr.current, tentative, pr.sizePx, effectiveSlots(flow)[pr.s], innerWidth)
        THEN [pr EXCEPT !.current = tentative, !.idx = @ + 1, !.iter = @ + 1]
        ELSE IF pr.current # <<>>
             THEN [pr EXCEPT !.slotLines = Append(@, pr.current), !.current = <<>>,
                             !.iter = @ + 1]
             ELSE [pr EXCEPT !.slotLines = Append(@, <<nextWord>>), !.idx = @ + 1,
                             !.iter = @ + 1]

\* after the loop: the pending line is pushed, lines[sIdx] is stored, and the
\* call goes on to the next slot or returns
afterLoop(pr) ==
    LET slotLines1 == IF pr.current # <<>> /\ Len(pr.slotLines) < loopMaxLines(pr)
                      THEN Append(pr.slotLines, pr.current)
                      ELSE pr.slotLines
        lines1 == Append(pr.lines, slotLines1)
        overflow == independentMode(flow) /\ pr.idx <= Len(loopWords(pr))
        last == pr.s = Len(effectiveSlots(flow))
    IN  LayoutProbe(pr.sizePx, pr.s + 1,
                    IF independentMode(flow) THEN 1 ELSE pr.idx,
                    <<>>, <<>>, lines1, 0, overflow \/ last)

\* the iterations a loop may be followed for
MaxIter == 2 * MaxWords + 2

InitLoop ==
    /\ InitOverlay
    /\ innerWidth \in ZeroWidths
    /\ innerHeight = SetMin(FlowHeights)
    /\ flow \in IndependentInstances \cup FlowingInstances
    /\ flow.autoSize
    /\ probe = NoProbe

\* recalc calls layoutAt for the k-th size it tries
LayoutEnter(k) ==
    /\ flow.mounted
    /\ probe = NoProbe
    /\ k <= Len(flow.tried)
    /\ probe' = LayoutProbe(flow.tried[k].sizePx, 1, 1, <<>>, <<>>, <<>>, 0, FALSE)
    /\ UNCHANGED <<overlayVars, flow>>

LoopIter ==
    /\ probe.fn = "layout" /\ ~probe.done
    /\ loopRuns(probe)
    /\ probe.iter < MaxIter
    /\ probe' = whileBody(probe)
    /\ UNCHANGED <<overlayVars, flow>>

SlotDone ==
    /\ probe.fn = "layout" /\ ~probe.done
    /\ ~loopRuns(probe)
    /\ probe' = afterLoop(probe)
    /\ UNCHANGED <<overlayVars, flow>>

NextLoop ==
    \/ FlowMount
    \/ \E k \in 1 .. (MaxFontPx - MinFontPx + 1) : LayoutEnter(k)
    \/ LoopIter
    \/ SlotDone

\* layoutAt runs to completion once called
SpecLoop == InitLoop /\ [][NextLoop]_vars /\ WF_vars(LoopIter \/ SlotDone)

\* ------------------------------------------------------------------------
\* C30.  The greedy wrapping loop terminates, also for a word wider than its
\* slot and for a slot of width 0: every iteration consumes a word or
\* finalizes a line, so a loop over n words makes at most 2n iterations and
\* every layoutAt call returns, with the lines recalc got from it; the
\* auto-sizing search computes at most maxFontPx - minFontPx + 1 layouts.
\* ------------------------------------------------------------------------
\* what is left for the loop of the current slot: words and lines
loopMeasure(pr) ==
    (Len(loopWords(pr)) + 1 - pr.idx) + (loopMaxLines(pr) - Len(pr.slotLines))

C30_State ==
    /\ flow.mounted => Len(flow.tried) <= MaxFontPx - MinFontPx + 1
    /\ (probe.fn = "layout" /\ ~probe.done) =>
           /\ probe.iter <= 2 * Len(loopWords(probe))
           /\ probe.iter < MaxIter
    /\ (probe.fn = "layout" /\ probe.done) =>
           probe.lines = layoutAt(flow, probe.sizePx, <<innerWidth, innerHeight>>).lines

C30_Step ==
    (probe.fn = "layout" /\ probe'.fn = "layout" /\ probe'.iter = probe.iter + 1) =>
        /\ \/ probe'.idx = probe.idx + 1
           \/ Len(probe'.slotLines) = Len(probe.slotLines) + 1
        /\ loopMeasure(probe') < loopMeasure(probe)
        /\ loopMeasure(probe') >= 0

C30_Terminates ==
    /\ [] C30_State
    /\ [][C30_Step]_vars
    /\ (probe.fn = "layout") ~> (probe.fn = "layout" /\ probe.done)

\* a layout of a window of width 0 has returned after forcing a word onto a
\* line of its own, and the search tried every size of the range
C30_Witness ==
    /\ probe.fn = "layout" /\ probe.done
    /\ innerWidth = 0
    /\ \E s \in 1 .. Len(probe.lines) : probe.lines[s] # <<>>
    /\ Len(flow.tried) = MaxFontPx - MinFontPx + 1

\* a layout has returned in which a word wider than its (non-zero) slot
\* stands alone on a line that was forced
C30_WitnessLongWord ==
    /\ probe.fn = "layout" /\ probe.done
    /\ innerWidth > 0
    /\ \E s \in 1 .. Len(probe.lines) :
          \E l \in 1 .. Len(probe.lines[s]) :
              /\ Len(probe.lines[s][l]) = 1
              /\ offsetWidth(probe.lines[s][l], probe.sizePx) * 100
                     > effectiveSlots(flow)[s].widthVw * innerWidth

====
